---- MODULE Spec2Model ----
(***************************************************************************)
(* Model of bikram: the Bikram Samwat date container `samwat`, the two     *)
(* converters convert_ad_to_bs / convert_bs_to_ad (src/bikram/bikram.py)   *)
(* and the parse/strftime pattern engine.                                  *)
(*                                                                         *)
(* A datetime.date is modelled by its day offset from AD_SCALE             *)
(* (1944-01-01 is 0); a timedelta by its number of days.  A samwat is the  *)
(* record [year, month, day, ad] of its __slots__, where ad is None or     *)
(* Some(offset).                                                           *)
(***************************************************************************)
EXTENDS Integers, Sequences, FiniteSets, TLC

VARIABLES op, self, arg, ret, orig, calls, PATTERNS_CACHE

vars == <<op, self, arg, ret, orig, calls, PATTERNS_CACHE>>

(***************************************************************************)
(* Bounds of the model.                                                    *)
(***************************************************************************)
\* number of A.D. / B.S. years drawn beyond each end of the supported range
YearMargin == 1
\* number of whole years at each end of the supported range drawn day by day
EdgeYears == 1
\* between the edge years every Stride-th day is drawn
Stride == 61
\* between the edge years every BsStride-th B.S. year is drawn
BsStride == 15
\* largest gap, in days, between two successive convert_ad_to_bs calls
MaxGap == 2
\* the samwat instances and date operands lie within Window days of the pivots
Window == 1
\* largest number of days of a timedelta operand
MaxDelta == 2
\* largest number of calls made on one samwat instance
MaxCalls == 2
\* longest separator text between two codes of a format pattern
MaxSepLen == 2
\* largest number of samwat.parse calls in a row
MaxParses == 2

(***************************************************************************)
(* constants/calendar_data.py: B.S. year -> days of month 1..12.           *)
(***************************************************************************)
BS_TABLE ==
  <<
    <<30, 32, 31, 32, 31, 30, 30, 30, 29, 30, 29, 31>>,  \* 2000
    <<31, 31, 32, 31, 31, 31, 30, 29, 30, 29, 30, 30>>,  \* 2001
    <<31, 31, 32, 32, 31, 30, 30, 29, 30, 29, 30, 30>>,  \* 2002
    <<31, 32, 31, 32, 31, 30, 30, 30, 29, 29, 30, 31>>,  \* 2003
    <<30, 32, 31, 32, 31, 30, 30, 30, 29, 30, 29, 31>>,  \* 2004
    <<31, 31, 32, 31, 31, 31, 30, 29, 30, 29, 30, 30>>,  \* 2005
    <<31, 31, 32, 32, 31, 30, 30, 29, 30, 29, 30, 30>>,  \* 2006
    <<31, 32, 31, 32, 31, 30, 30, 30, 29, 29, 30, 31>>,  \* 2007
    <<31, 31, 31, 32, 31, 31, 29, 30, 30, 29, 29, 31>>,  \* 2008
    <<31, 31, 32, 31, 31, 31, 30, 29, 30, 29, 30, 30>>,  \* 2009
    <<31, 31, 32, 32, 31, 30, 30, 29, 30, 29, 30, 30>>,  \* 2010
    <<31, 32, 31, 32, 31, 30, 30, 30, 29, 29, 30, 31>>,  \* 2011
    <<31, 31, 31, 32, 31, 31, 29, 30, 30, 29, 30, 30>>,  \* 2012
    <<31, 31, 32, 31, 31, 31, 30, 29, 30, 29, 30, 30>>,  \* 2013
    <<31, 31, 32, 32, 31, 30, 30, 29, 30, 29, 30, 30>>,  \* 2014
    <<31, 32, 31, 32, 31, 30, 30, 30, 29, 29, 30, 31>>,  \* 2015
    <<31, 31, 31, 32, 31, 31, 29, 30, 30, 29, 30, 30>>,  \* 2016
    <<31, 31, 32, 31, 31, 31, 30, 29, 30, 29, 30, 30>>,  \* 2017
    <<31, 32, 31, 32, 31, 30, 30, 29, 30, 29, 30, 30>>,  \* 2018
    <<31, 32, 31, 32, 31, 30, 30, 30, 29, 30, 29, 31>>,  \* 2019
    <<31, 31, 31, 32, 31, 31, 30, 29, 30, 29, 30, 30>>,  \* 2020
    <<31, 31, 32, 31, 31, 31, 30, 29, 30, 29, 30, 30>>,  \* 2021
    <<31, 32, 31, 32, 31, 30, 30, 30, 29, 29, 30, 30>>,  \* 2022
    <<31, 32, 31, 32, 31, 30, 30, 30, 29, 30, 29, 31>>,  \* 2023
    <<31, 31, 31, 32, 31, 31, 30, 29, 30, 29, 30, 30>>,  \* 2024
    <<31, 31, 32, 31, 31, 31, 30, 29, 30, 29, 30, 30>>,  \* 2025
    <<31, 32, 31, 32, 31, 30, 30, 30, 29, 29, 30, 31>>,  \* 2026
    <<30, 32, 31, 32, 31, 30, 30, 30, 29, 30, 29, 31>>,  \* 2027
    <<31, 31, 32, 31, 31, 31, 30, 29, 30, 29, 30, 30>>,  \* 2028
    <<31, 31, 32, 31, 32, 30, 30, 29, 30, 29, 30, 30>>,  \* 2029
    <<31, 32, 31, 32, 31, 30, 30, 30, 29, 29, 30, 31>>,  \* 2030
    <<30, 32, 31, 32, 31, 30, 30, 30, 29, 30, 29, 31>>,  \* 2031
    <<31, 31, 32, 31, 31, 31, 30, 29, 30, 29, 30, 30>>,  \* 2032
    <<31, 31, 32, 32, 31, 30, 30, 29, 30, 29, 30, 30>>,  \* 2033
    <<31, 32, 31, 32, 31, 30, 30, 30, 29, 29, 30, 31>>,  \* 2034
    <<30, 32, 31, 32, 31, 31, 29, 30, 30, 29, 29, 31>>,  \* 2035
    <<31, 31, 32, 31, 31, 31, 30, 29, 30, 29, 30, 30>>,  \* 2036
    <<31, 31, 32, 32, 31, 30, 30, 29, 30, 29, 30, 30>>,  \* 2037
    <<31, 32, 31, 32, 31, 30, 30, 30, 29, 29, 30, 31>>,  \* 2038
    <<31, 31, 31, 32, 31, 31, 29, 30, 30, 29, 30, 30>>,  \* 2039
    <<31, 31, 32, 31, 31, 31, 30, 29, 30, 29, 30, 30>>,  \* 2040
    <<31, 31, 32, 32, 31, 30, 30, 29, 30, 29, 30, 30>>,  \* 2041
    <<31, 32, 31, 32, 31, 30, 30, 30, 29, 29, 30, 31>>,  \* 2042
    <<31, 31, 31, 32, 31, 31, 29, 30, 30, 29, 30, 30>>,  \* 2043
    <<31, 31, 32, 31, 31, 31, 30, 29, 30, 29, 30, 30>>,  \* 2044
    <<31, 32, 31, 32, 31, 30, 30, 29, 30, 29, 30, 30>>,  \* 2045
    <<31, 32, 31, 32, 31, 30, 30, 30, 29, 29, 30, 31>>,  \* 2046
    <<31, 31, 31, 32, 31, 31, 30, 29, 30, 29, 30, 30>>,  \* 2047
    <<31, 31, 32, 31, 31, 31, 30, 29, 30, 29, 30, 30>>,  \* 2048
    <<31, 32, 31, 32, 31, 30, 30, 30, 29, 29, 30, 30>>,  \* 2049
    <<31, 32, 31, 32, 31, 30, 30, 30, 29, 30, 29, 31>>,  \* 2050
    <<31, 31, 31, 32, 31, 31, 30, 29, 30, 29, 30, 30>>,  \* 2051
    <<31, 31, 32, 31, 31, 31, 30, 29, 30, 29, 30, 30>>,  \* 2052
    <<31, 32, 31, 32, 31, 30, 30, 30, 29, 29, 30, 30>>,  \* 2053
    <<31, 32, 31, 32, 31, 30, 30, 30, 29, 30, 29, 31>>,  \* 2054
    <<31, 31, 32, 31, 31, 31, 30, 29, 30, 29, 30, 30>>,  \* 2055
    <<31, 31, 32, 31, 32, 30, 30, 29, 30, 29, 30, 30>>,  \* 2056
    <<31, 32, 31, 32, 31, 30, 30, 30, 29, 29, 30, 31>>,  \* 2057
    <<30, 32, 31, 32, 31, 30, 30, 30, 29, 30, 29, 31>>,  \* 2058
    <<31, 31, 32, 31, 31, 31, 30, 29, 30, 29, 30, 30>>,  \* 2059
    <<31, 31, 32, 32, 31, 30, 30, 29, 30, 29, 30, 30>>,  \* 2060
    <<31, 32, 31, 32, 31, 30, 30, 30, 29, 29, 30, 31>>,  \* 2061
    <<30, 32, 31, 32, 31, 31, 29, 30, 29, 30, 29, 31>>,  \* 2062
    <<31, 31, 32, 31, 31, 31, 30, 29, 30, 29, 30, 30>>,  \* 2063
    <<31, 31, 32, 32, 31, 30, 30, 29, 30, 29, 30, 30>>,  \* 2064
    <<31, 32, 31, 32, 31, 30, 30, 30, 29, 29, 30, 31>>,  \* 2065
    <<31, 31, 31, 32, 31, 31, 29, 30, 30, 29, 29, 31>>,  \* 2066
    <<31, 31, 32, 31, 31, 31, 30, 29, 30, 29, 30, 30>>,  \* 2067
    <<31, 31, 32, 32, 31, 30, 30, 29, 30, 29, 30, 30>>,  \* 2068
    <<31, 32, 31, 32, 31, 30, 30, 30, 29, 29, 30, 31>>,  \* 2069
    <<31, 31, 31, 32, 31, 31, 29, 30, 30, 29, 30, 30>>,  \* 2070
    <<31, 31, 32, 31, 31, 31, 30, 29, 30, 29, 30, 30>>,  \* 2071
    <<31, 32, 31, 32, 31, 30, 30, 29, 30, 29, 30, 30>>,  \* 2072
    <<31, 32, 31, 32, 31, 30, 30, 30, 29, 29, 30, 31>>,  \* 2073
    <<31, 31, 31, 32, 31, 31, 30, 29, 30, 29, 30, 30>>,  \* 2074
    <<31, 31, 32, 31, 31, 31, 30, 29, 30, 29, 30, 30>>,  \* 2075
    <<31, 32, 31, 32, 31, 30, 30, 30, 29, 29, 30, 30>>,  \* 2076
    <<31, 32, 31, 32, 31, 30, 30, 30, 29, 30, 29, 31>>,  \* 2077
    <<31, 31, 31, 32, 31, 31, 30, 29, 30, 29, 30, 30>>,  \* 2078
    <<31, 31, 32, 31, 31, 31, 30, 29, 30, 29, 30, 30>>,  \* 2079
    <<31, 32, 31, 32, 31, 30, 30, 30, 29, 29, 30, 30>>,  \* 2080
    <<31, 31, 32, 32, 31, 30, 30, 30, 29, 30, 30, 30>>,  \* 2081
    <<30, 32, 31, 32, 31, 30, 30, 30, 29, 30, 30, 30>>,  \* 2082
    <<31, 31, 32, 31, 31, 30, 30, 30, 29, 30, 30, 30>>,  \* 2083
    <<31, 31, 32, 31, 31, 30, 30, 30, 29, 30, 30, 30>>,  \* 2084
    <<31, 32, 31, 32, 30, 31, 30, 30, 29, 30, 30, 30>>,  \* 2085
    <<30, 32, 31, 32, 31, 30, 30, 30, 29, 30, 30, 30>>,  \* 2086
    <<31, 31, 32, 31, 31, 31, 30, 30, 29, 30, 30, 30>>,  \* 2087
    <<30, 31, 32, 32, 30, 31, 30, 30, 29, 30, 30, 30>>,  \* 2088
    <<30, 32, 31, 32, 31, 30, 30, 30, 29, 30, 30, 30>>,  \* 2089
    <<30, 32, 31, 32, 31, 30, 30, 30, 29, 30, 30, 30>>   \* 2090
  >>

MIN_BS_YEAR == 2000

BS_YEAR_TO_MONTHS ==
  [y \in MIN_BS_YEAR..(MIN_BS_YEAR + Len(BS_TABLE) - 1) |-> BS_TABLE[y - MIN_BS_YEAR + 1]]

(***************************************************************************)
(* datetime.date, as far as the converters use it: the year of a date and  *)
(* day arithmetic.                                                         *)
(***************************************************************************)
None == {}
Some(v) == {v}
Get(o) == CHOOSE v \in o : TRUE

MIN_AD_YEAR == 1944
MAX_AD_YEAR == 2033
MAX_BS_YEAR == 2089

\* datetime._days_before_year: the days before January 1st of year y
DaysBeforeYear(year) ==
  LET y == year - 1 IN y * 365 + (y \div 4) - (y \div 100) + (y \div 400)

\* offset of January 1st of year y from 1944-01-01
YearStart(y) == DaysBeforeYear(y) - DaysBeforeYear(MIN_AD_YEAR)

IsLeap(y) == (y % 4 = 0 /\ y % 100 # 0) \/ y % 400 = 0

DaysInMonth(y, m) ==
  IF m = 2 THEN (IF IsLeap(y) THEN 29 ELSE 28)
  ELSE IF m \in {4, 6, 9, 11} THEN 30 ELSE 31

RECURSIVE DaysBeforeMonth(_, _)
DaysBeforeMonth(y, m) == IF m <= 1 THEN 0 ELSE DaysInMonth(y, m - 1) + DaysBeforeMonth(y, m - 1)

\* datetime.date(y, m, d)
Date(y, m, d) == YearStart(y) + DaysBeforeMonth(y, m) + d - 1

\* date.year: the year whose days include offset d
AdYear(d) ==
  CHOOSE y \in (MIN_AD_YEAR + (d \div 366) - 1)..(MIN_AD_YEAR + (d \div 365) + 1) :
    YearStart(y) <= d /\ d < YearStart(y + 1)

\* the supported range of A.D. years
InAdRange(d) == MIN_AD_YEAR <= AdYear(d) /\ AdYear(d) <= MAX_AD_YEAR

\* every day of the years a..b
DaysOfYears(a, b) == YearStart(a)..(YearStart(b + 1) - 1)

\* the dates the model draws: every day of the first and last EdgeYears years of
\* the supported range and of YearMargin years beyond, every Stride-th day between
AdDates ==
  DaysOfYears(MIN_AD_YEAR - YearMargin, MIN_AD_YEAR + EdgeYears - 1)
  \cup DaysOfYears(MAX_AD_YEAR - EdgeYears + 1, MAX_AD_YEAR + YearMargin)
  \cup {d \in DaysOfYears(MIN_AD_YEAR + EdgeYears, MAX_AD_YEAR - EdgeYears) : d % Stride = 0}

(***************************************************************************)
(* samwat.__init__ and the anchor pair.                                    *)
(***************************************************************************)
samwat(year, month, day, ad) == [year |-> year, month |-> month, day |-> day, ad |-> ad]

as_tuple(s) == <<s.year, s.month, s.day>>

AD_SCALE == Date(1944, 1, 1)
BS_SCALE == samwat(2000, 9, 17, None)

\* tuple comparison, as Python orders (year, month, day) tuples
TupleLt(a, b) ==
  \/ a[1] < b[1]
  \/ a[1] = b[1] /\ a[2] < b[2]
  \/ a[1] = b[1] /\ a[2] = b[2] /\ a[3] < b[3]

(***************************************************************************)
(* Outcomes of a call: a returned value or a raised exception, with the    *)
(* set of B.S. years whose table row the call looked up.                   *)
(***************************************************************************)
Return(kind, val, looked) == [kind |-> kind, val |-> val, looked |-> looked]
Raise(exc, looked) == [kind |-> exc, val |-> None, looked |-> looked]
NoCall == [kind |-> "none", val |-> None, looked |-> {}]
NoArg == [kind |-> "none", val |-> None]
Value(kind, val) == [kind |-> kind, val |-> val]

\* sum(months_for_year[lo:hi]) for 1 <= lo, as Python slices the 13-tuple
RECURSIVE SumSlice(_, _, _)
SumSlice(months, lo, hi) ==
  IF lo >= hi \/ lo > 12 THEN 0 ELSE months[lo] + SumSlice(months, lo + 1, hi)

\* the stop index of a Python slice of a 13-tuple
SliceStop(hi) == IF hi < 0 THEN (IF 13 + hi < 0 THEN 0 ELSE 13 + hi) ELSE IF hi > 13 THEN 13 ELSE hi

(***************************************************************************)
(* convert_ad_to_bs                                                        *)
(***************************************************************************)
\* the loop variables of convert_ad_to_bs; err is set when a table lookup fails
AdToBsVars(year, month, day, looked, err) ==
  [year |-> year, month |-> month, day |-> day, looked |-> looked, err |-> err]

\* the while condition: day > BS_YEAR_TO_MONTHS[year][month]
ad_to_bs_cond(v) ==
  /\ ~v.err
  /\ v.year \in DOMAIN BS_YEAR_TO_MONTHS
  /\ v.day > BS_YEAR_TO_MONTHS[v.year][v.month]

\* evaluating the while condition at a year the table lacks raises KeyError
ad_to_bs_test(v) ==
  IF ~v.err /\ v.year \notin DOMAIN BS_YEAR_TO_MONTHS
  THEN AdToBsVars(v.year, v.month, v.day, v.looked, TRUE)
  ELSE v

\* the while body without the year roll-over after month 12
ad_to_bs_body_no_rollover(v) ==
  LET day == v.day - BS_YEAR_TO_MONTHS[v.year][v.month]
  IN  IF v.month = 12
      THEN AdToBsVars(v.year, 1, day, v.looked \cup {v.year}, FALSE)
      ELSE AdToBsVars(v.year, v.month + 1, day, v.looked \cup {v.year}, FALSE)

\* one iteration of the while body
ad_to_bs_body(v) ==
  LET day == v.day - BS_YEAR_TO_MONTHS[v.year][v.month]
  IN  IF v.month = 12
      THEN AdToBsVars(v.year + 1, 1, day, v.looked \cup {v.year}, FALSE)
      ELSE AdToBsVars(v.year, v.month + 1, day, v.looked \cup {v.year}, FALSE)

\* the while loop cut after n iterations (n is split in halves to keep the
\* evaluation shallow; the iterations run in the order of the code)
RECURSIVE ad_to_bs_while(_, _)
ad_to_bs_while(v, n) ==
  IF n = 0 \/ ~ad_to_bs_cond(v) THEN ad_to_bs_test(v)
  ELSE IF n = 1 THEN ad_to_bs_body(v)
  ELSE ad_to_bs_while(ad_to_bs_while(v, n \div 2), n - (n \div 2))

\* every 12 iterations advance the year, so the loop ends or leaves the table
\* within 12 iterations per table row
MaxIterations == 12 * Len(BS_TABLE) + 1

\* the return statement: samwat(year, month, day, date_in_ad)
ad_to_bs_return(v, date_in_ad) ==
  IF v.err THEN Raise("KeyError", v.looked)
  ELSE Return("samwat", samwat(v.year, v.month, v.day, Some(date_in_ad)),
              v.looked \cup {v.year})

\* the range check written as the chained comparison 1944 > year > 2033
convert_ad_to_bs_chained(date_in_ad) ==
  IF 1944 > AdYear(date_in_ad) /\ AdYear(date_in_ad) > 2033
  THEN Raise("ValueError", {})
  ELSE ad_to_bs_return(
         ad_to_bs_while(AdToBsVars(BS_SCALE.year, BS_SCALE.month,
                                   BS_SCALE.day + (date_in_ad - AD_SCALE), {}, FALSE),
                        MaxIterations),
         date_in_ad)

convert_ad_to_bs(date_in_ad) ==
  IF 1944 > AdYear(date_in_ad) \/ AdYear(date_in_ad) > 2033
  THEN Raise("ValueError", {})
  ELSE ad_to_bs_return(
         ad_to_bs_while(AdToBsVars(BS_SCALE.year, BS_SCALE.month,
                                   BS_SCALE.day + (date_in_ad - AD_SCALE), {}, FALSE),
                        MaxIterations),
         date_in_ad)

(***************************************************************************)
(* convert_bs_to_ad                                                        *)
(***************************************************************************)
\* the loop variables of convert_bs_to_ad; err is set when a table lookup fails
BsToAdVars(year, days, looked, err) ==
  [year |-> year, days |-> days, looked |-> looked, err |-> err]

\* the days one year of the loop adds: the rest of the anchor's year after
\* BS_SCALE, or a whole year
days_of_year(months_for_year, year) ==
  IF year = BS_SCALE.year
  THEN SumSlice(months_for_year, BS_SCALE.month + 1, 13)
       + months_for_year[BS_SCALE.month] - BS_SCALE.day
  ELSE SumSlice(months_for_year, 1, 13)

\* one iteration of the while body
bs_to_ad_body(v) ==
  IF v.year \notin DOMAIN BS_YEAR_TO_MONTHS
  THEN BsToAdVars(v.year, v.days, v.looked, TRUE)
  ELSE BsToAdVars(v.year - 1, v.days + days_of_year(BS_YEAR_TO_MONTHS[v.year], v.year),
                  v.looked \cup {v.year}, FALSE)

\* the while loop cut after n iterations (n is split in halves to keep the
\* evaluation shallow; the iterations run in the order of the code)
RECURSIVE bs_to_ad_while(_, _)
bs_to_ad_while(v, n) ==
  IF n = 0 \/ v.err \/ ~(v.year >= BS_SCALE.year) THEN v
  ELSE IF n = 1 THEN bs_to_ad_body(v)
  ELSE bs_to_ad_while(bs_to_ad_while(v, n \div 2), n - (n \div 2))

\* the return statement: AD_SCALE + timedelta(days=days)
bs_to_ad_return(v) ==
  IF v.err THEN Raise("KeyError", v.looked)
  ELSE Return("date", AD_SCALE + v.days, v.looked)

convert_bs_to_ad(date_in_bs) ==
  IF 2000 > date_in_bs.year \/ date_in_bs.year > 2089
  THEN Raise("ValueError", {})
  ELSE bs_to_ad_return(
         bs_to_ad_while(
           BsToAdVars(date_in_bs.year - 1,
                      date_in_bs.day
                      + SumSlice(BS_YEAR_TO_MONTHS[date_in_bs.year], 1,
                                 SliceStop(date_in_bs.month)),
                      {date_in_bs.year}, FALSE),
           MaxIterations))

(***************************************************************************)
(* The operations of a samwat instance.  Each returns the receiver after   *)
(* the call (its _ad may have been cached), the operand after the call     *)
(* and the outcome.                                                        *)
(***************************************************************************)
Called(s, other, out) == [self |-> s, other |-> other, out |-> out]

\* self._ad = convert_bs_to_ad(self), kept only when the conversion returned
cache_ad(s, r) ==
  IF r.kind = "date"
  THEN [self |-> [s EXCEPT !.ad = Some(r.val)], out |-> r]
  ELSE [self |-> s, out |-> r]

\* the ad property converting at every read
samwat_ad_recomputing(s) ==
  IF TRUE THEN cache_ad(s, convert_bs_to_ad(s))
  ELSE [self |-> s, out |-> Return("date", Get(s.ad), {})]

\* the ad property
samwat_ad(s) ==
  IF s.ad = None THEN cache_ad(s, convert_bs_to_ad(s))
  ELSE [self |-> s, out |-> Return("date", Get(s.ad), {})]

\* an operation that reads self.ad (a) first: it ends with the exception of
\* the read or with the value computed from the date
with_ad(a, other, kind, val) ==
  IF a.out.kind # "date" THEN Called(a.self, other, a.out)
  ELSE Called(a.self, other, Return(kind, val, a.out.looked))

\* convert_ad_to_bs(self.ad + sign * other)
shift_ad(a, other, sign) ==
  IF a.out.kind # "date" THEN Called(a.self, other, a.out)
  ELSE Called(a.self, other, convert_ad_to_bs(a.out.val + sign * other.val))

\* the timedelta branch of __add__ and __sub__
shift(s, other, sign) == shift_ad(samwat_ad(s), other, sign)

\* __add__ accepting a date operand as well
samwat_add_coercing(s, other) ==
  IF other.kind \in {"timedelta", "date"} THEN shift(s, other, 1)
  ELSE Called(s, other, Raise("TypeError", {}))

\* __add__
samwat_add(s, other) ==
  IF other.kind = "timedelta" THEN shift(s, other, 1)
  ELSE Called(s, other, Raise("TypeError", {}))

\* self.ad - other.ad with self.ad (a) read before other.ad (b)
sub_ads(a, b) ==
  IF b.out.kind # "date" THEN Called(a.self, Value("samwat", b.self), b.out)
  ELSE Called(a.self, Value("samwat", b.self),
              Return("timedelta", a.out.val - b.out.val, a.out.looked \cup b.out.looked))

\* the samwat branch of __sub__; other.ad is not read when self.ad raised
sub_samwat_ad(a, other) ==
  IF a.out.kind # "date" THEN Called(a.self, other, a.out)
  ELSE sub_ads(a, samwat_ad(other.val))

sub_samwat(s, other) == sub_samwat_ad(samwat_ad(s), other)

\* self.ad - other: the date branch of __sub__
sub_date_ad(a, other) == with_ad(a, other, "timedelta", a.out.val - other.val)

sub_date(s, other) == sub_date_ad(samwat_ad(s), other)

\* __sub__
samwat_sub(s, other) ==
  IF other.kind = "timedelta" THEN shift(s, other, -1)
  ELSE IF other.kind = "samwat" THEN sub_samwat(s, other)
  ELSE IF other.kind = "date" THEN sub_date(s, other)
  ELSE Called(s, other, Raise("TypeError", {}))

\* other - self, told from the side of self: r is the outcome of other.__sub__(self)
reflected(r) == Called(r.other.val, Value("samwat", r.self), r.out)

\* other - self.ad: the date branch of __rsub__
rsub_date_ad(a, other) == with_ad(a, other, "timedelta", other.val - a.out.val)

\* __rsub__: other - self
samwat_rsub(s, other) ==
  IF other.kind = "samwat" THEN reflected(samwat_sub(other.val, Value("samwat", s)))
  ELSE IF other.kind = "date" THEN rsub_date_ad(samwat_ad(s), other)
  ELSE Called(s, other, Raise("TypeError", {}))

\* self.ad == other
eq_date_ad(a, other) == with_ad(a, other, "bool", a.out.val = other.val)

\* __eq__
samwat_eq(s, other) ==
  IF other.kind = "date" THEN eq_date_ad(samwat_ad(s), other)
  ELSE IF other.kind = "samwat"
  THEN Called(s, other, Return("bool", as_tuple(s) = as_tuple(other.val), {}))
  ELSE Called(s, other, Raise("TypeError", {}))

\* self.ad <= other
lt_date_ad(a, other) == with_ad(a, other, "bool", a.out.val <= other.val)

\* __lt__
samwat_lt(s, other) ==
  IF other.kind = "date" THEN lt_date_ad(samwat_ad(s), other)
  ELSE IF other.kind = "samwat"
  THEN Called(s, other, Return("bool", TupleLt(as_tuple(s), as_tuple(other.val)), {}))
  ELSE Called(s, other, Raise("TypeError", {}))

\* the negation of a comparison's result
negated(e) ==
  IF e.out.kind # "bool" THEN e
  ELSE Called(e.self, e.other, Return("bool", ~e.out.val, e.out.looked))

\* functools.total_ordering: self < other or self == other
le_from_lt(l) ==
  IF l.out.kind # "bool" \/ l.out.val THEN l
  ELSE samwat_eq(l.self, l.other)

\* functools.total_ordering: not self < other and self != other
gt_from_lt(l) ==
  IF l.out.kind # "bool" THEN l
  ELSE IF l.out.val THEN negated(l)
  ELSE negated(samwat_eq(l.self, l.other))

\* functools.total_ordering: not self < other
ge_from_lt(l) == negated(l)

\* __le__, __gt__ and __ge__ as functools.total_ordering derives them from __lt__
samwat_le(s, other) == le_from_lt(samwat_lt(s, other))
samwat_gt(s, other) == gt_from_lt(samwat_lt(s, other))
samwat_ge(s, other) == ge_from_lt(samwat_lt(s, other))

\* an argument of replace, or the attribute when the argument is None or 0
or_attr(given, attr) == IF given = None \/ Get(given) = 0 THEN attr ELSE Get(given)

\* replace: a new samwat from the arguments given and the attributes of self
samwat_replace(s, other) ==
  Called(s, other,
         Return("samwat",
                samwat(or_attr(other.val.year, s.year), or_attr(other.val.month, s.month),
                       or_attr(other.val.day, s.day), None),
                {}))

\* as_tuple() as a call on the instance
samwat_as_tuple(s) == Called(s, NoArg, Return("tuple", as_tuple(s), {}))

\* __hash__: the hash of the triple, written as the triple hashed
samwat_hash(s) == Called(s, NoArg, Return("hash", as_tuple(s), {}))

(***************************************************************************)
(* Text.  A str is a sequence of characters.  The Devanagari digits and    *)
(* month names of constants/__init__.py are written with ASCII stand-ins:  *)
(* "dev0" .. "dev9" are the digits, and a Devanagari month name is one     *)
(* character "dev:<name>".                                                 *)
(***************************************************************************)
Digits == <<"0", "1", "2", "3", "4", "5", "6", "7", "8", "9">>
DevDigits == <<"dev0", "dev1", "dev2", "dev3", "dev4", "dev5", "dev6", "dev7", "dev8", "dev9">>

Range(f) == {f[i] : i \in DOMAIN f}

LowerLetters ==
  << "a", "b", "c", "d", "e", "f", "g", "h", "i", "j", "k", "l", "m",
     "n", "o", "p", "q", "r", "s", "t", "u", "v", "w", "x", "y", "z" >>

UpperLetters ==
  << "A", "B", "C", "D", "E", "F", "G", "H", "I", "J", "K", "L", "M",
     "N", "O", "P", "Q", "R", "S", "T", "U", "V", "W", "X", "Y", "Z" >>

Letters == Range(LowerLetters) \cup Range(UpperLetters)

\* the regular-expression classes \d and \w of a str pattern, and [०-९]
IsDigit(c) == c \in Range(Digits) \cup Range(DevDigits)
IsDevDigit(c) == c \in Range(DevDigits)
IsWord(c) == c \in Letters \cup Range(Digits) \cup Range(DevDigits) \cup {"_"}

\* ENG_TO_DEV_DIGITS_TRANSTABLE and DEV_TO_ENG_DIGITS_TRANSTABLE under str.translate
EngToDev(c) == IF c \in Range(Digits) THEN DevDigits[CHOOSE i \in 1..10 : Digits[i] = c] ELSE c
DevToEng(c) == IF c \in Range(DevDigits) THEN Digits[CHOOSE i \in 1..10 : DevDigits[i] = c] ELSE c
TranslateEngToDev(s) == [i \in 1..Len(s) |-> EngToDev(s[i])]
TranslateDevToEng(s) == [i \in 1..Len(s) |-> DevToEng(s[i])]

\* str(n)
RECURSIVE Str(_)
Str(n) ==
  IF n < 0 THEN <<"-">> \o Str(0 - n)
  ELSE IF n < 10 THEN <<Digits[n + 1]>>
  ELSE Str(n \div 10) \o <<Digits[(n % 10) + 1]>>

\* str.zfill(2) and str.rjust(2) of the digits of a number that is not negative
Zfill2(s) == IF Len(s) < 2 THEN <<"0">> \o s ELSE s
Rjust2(s) == IF Len(s) < 2 THEN <<" ">> \o s ELSE s

\* s[2:]
From2(s) == SubSeq(s, 3, Len(s))

\* int(s) of a str of decimal digits of either script
DigitValue(c) == CHOOSE i \in 0..9 : Digits[i + 1] = c \/ DevDigits[i + 1] = c
RECURSIVE ToInt(_)
ToInt(s) == IF Len(s) = 0 THEN 0 ELSE 10 * ToInt(SubSeq(s, 1, Len(s) - 1)) + DigitValue(s[Len(s)])

\* s.startswith(t, pos): t occurs in s at index pos
OccursAt(s, t, pos) ==
  /\ pos + Len(t) - 1 <= Len(s)
  /\ \A k \in 1..Len(t) : s[pos + k - 1] = t[k]

\* s.replace(old, new) from index pos on, for a non-empty old
RECURSIVE ReplaceFrom(_, _, _, _)
ReplaceFrom(s, old, new, pos) ==
  IF pos > Len(s) THEN <<>>
  ELSE IF OccursAt(s, old, pos) THEN new \o ReplaceFrom(s, old, new, pos + Len(old))
  ELSE <<s[pos]>> \o ReplaceFrom(s, old, new, pos + 1)

Replace(s, old, new) == ReplaceFrom(s, old, new, 1)

\* str.lower, a character at a time
Lower(c) ==
  IF c \in Range(UpperLetters) THEN LowerLetters[CHOOSE i \in 1..26 : UpperLetters[i] = c]
  ELSE c

(***************************************************************************)
(* _code_re = %-?\w{1,3}                                                   *)
(***************************************************************************)
\* the length of the match of _code_re at index pos, 0 when there is none
CodeLenAt(s, pos) ==
  IF pos > Len(s) \/ s[pos] # "%" THEN 0
  ELSE LET dash == IF pos + 1 <= Len(s) /\ s[pos + 1] = "-" THEN 1 ELSE 0
           first == pos + 1 + dash
           words == {n \in 1..3 : first + n - 1 <= Len(s)
                                  /\ \A k \in 0..(n - 1) : IsWord(s[first + k])}
       IN  IF words = {} THEN 0
           ELSE 1 + dash + (CHOOSE n \in words : \A k \in words : k <= n)

\* _code_re.findall(s) from index pos on: the codes in order
RECURSIVE FindCodes(_, _)
FindCodes(s, pos) ==
  IF pos > Len(s) THEN <<>>
  ELSE LET n == CodeLenAt(s, pos)
       IN  IF n = 0 THEN FindCodes(s, pos + 1)
           ELSE <<SubSeq(s, pos, pos + n - 1)>> \o FindCodes(s, pos + n)

(***************************************************************************)
(* samwat.strftime                                                         *)
(***************************************************************************)
\* month_name and month_name_abbr of constants/__init__.py
month_name ==
  << <<"B","a","i","s","a","k","h">>, <<"J","e","s","t","h","a">>,
     <<"A","s","h","a","d","h">>, <<"S","h","r","a","w","a","n">>,
     <<"B","h","a","d","r","a">>, <<"A","s","h","w","i","n">>,
     <<"K","a","r","t","i","k">>, <<"M","a","n","g","s","i","r">>,
     <<"P","o","u","s","h">>, <<"M","a","g","h">>,
     <<"F","a","l","g","u","n">>, <<"C","h","a","i","t","r","a">> >>

month_name_abbr == [i \in 1..12 |-> SubSeq(month_name[i], 1, 3)]

month_name_dev ==
  << <<"dev:Baisakh">>, <<"dev:Jestha">>, <<"dev:Ashadh">>, <<"dev:Shrawan">>,
     <<"dev:Bhadra">>, <<"dev:Ashwin">>, <<"dev:Kartik">>, <<"dev:Mangsir">>,
     <<"dev:Poush">>, <<"dev:Magh">>, <<"dev:Falgun">>, <<"dev:Chaitra">> >>

\* the tokens of the codes
PctD == <<"%", "d">>
PctDne == <<"%", "d", "n", "e">>
PctMinusD == <<"%", "-", "d">>
PctMinusDne == <<"%", "-", "d", "n", "e">>
PctM == <<"%", "m">>
PctMne == <<"%", "m", "n", "e">>
PctMinusM == <<"%", "-", "m">>
PctMinusMne == <<"%", "-", "m", "n", "e">>
PctLowY == <<"%", "y">>
PctY == <<"%", "Y">>
PctLowYne == <<"%", "y", "n", "e">>
PctYne == <<"%", "Y", "n", "e">>
PctB == <<"%", "B">>
PctBne == <<"%", "B", "n", "e">>

\* the keys of _to_str_converters
ToStrCodes ==
  { PctD, PctMinusD, PctDne, PctMinusDne, PctM, PctMinusM, PctMne, PctMinusMne,
    PctLowY, PctY, PctLowYne, PctYne, PctB, PctBne }

\* _to_str_converters[code](obj), for a code other than %B and %Bne
to_str(code, obj) ==
  IF code = PctD THEN Zfill2(Str(obj.day))
  ELSE IF code = PctMinusD THEN Rjust2(Str(obj.day))
  ELSE IF code = PctDne THEN TranslateEngToDev(Zfill2(Str(obj.day)))
  ELSE IF code = PctMinusDne THEN TranslateEngToDev(Rjust2(Str(obj.day)))
  ELSE IF code = PctM THEN Zfill2(Str(obj.month))
  ELSE IF code = PctMinusM THEN Rjust2(Str(obj.month))
  ELSE IF code = PctMne THEN TranslateEngToDev(Zfill2(Str(obj.month)))
  ELSE IF code = PctMinusMne THEN TranslateEngToDev(Rjust2(Str(obj.month)))
  ELSE IF code = PctLowY THEN From2(Str(obj.year))
  ELSE IF code = PctY THEN Str(obj.year)
  ELSE IF code = PctLowYne THEN TranslateEngToDev(From2(Str(obj.year)))
  ELSE TranslateEngToDev(Str(obj.year))

Message(exc, msg) == [kind |-> exc, val |-> msg, looked |-> {}]

\* the for loop of strftime over the codes found, formatted so far
RECURSIVE strftime_loop(_, _, _)
strftime_loop(obj, matches, formatted) ==
  IF Len(matches) = 0 THEN Return("str", formatted, {})
  ELSE LET match == Head(matches)
       IN  IF match \notin ToStrCodes THEN Message("ValueError", "Invalid date pattern")
           ELSE IF match \in {PctB, PctBne}
           THEN IF obj.month \notin 1..12 THEN Message("ValueError", "Invalid value for month")
                ELSE strftime_loop(obj, Tail(matches),
                                   Replace(formatted, match,
                                           IF match = PctB THEN month_name[obj.month]
                                           ELSE month_name_dev[obj.month]))
           ELSE strftime_loop(obj, Tail(matches), Replace(formatted, match, to_str(match, obj)))

strftime(obj, formatstr) == strftime_loop(obj, FindCodes(formatstr, 1), formatstr)

\* strftime as a call on the instance
samwat_strftime(s, other) == Called(s, other, strftime(s, other.val))

(***************************************************************************)
(* samwat.parse                                                            *)
(***************************************************************************)
\* c.replace("%", "").replace("-", "").replace("ne", "").lower()
unique_code(c) ==
  LET stripped == Replace(Replace(Replace(c, <<"%">>, <<>>), <<"-">>, <<>>), <<"n", "e">>, <<>>)
  IN  [i \in 1..Len(stripped) |-> Lower(stripped[i])]

\* a named group of the compiled pattern: min to max characters of a class
Group(name, cls, min, max) == [name |-> name, cls |-> cls, min |-> min, max |-> max]

\* the keys of _code_patterns
PatternCodes ==
  { PctD, PctMinusD, PctDne, PctMinusDne, PctM, PctMinusM, PctMne, PctMinusMne,
    PctLowY, PctY, PctLowYne, PctYne, PctB }

\* _code_patterns[code]
code_pattern(code) ==
  IF code = PctD THEN Group("day", "digit", 2, 2)
  ELSE IF code = PctMinusD THEN Group("day", "digit", 1, 2)
  ELSE IF code = PctDne THEN Group("ned", "dev", 2, 2)
  ELSE IF code = PctMinusDne THEN Group("ned", "dev", 1, 2)
  ELSE IF code = PctM THEN Group("m", "digit", 2, 2)
  ELSE IF code = PctMinusM THEN Group("m", "digit", 1, 2)
  ELSE IF code = PctMne THEN Group("nem", "dev", 2, 2)
  ELSE IF code = PctMinusMne THEN Group("nem", "dev", 1, 2)
  ELSE IF code = PctLowY THEN Group("sy", "digit", 2, 2)
  ELSE IF code = PctY THEN Group("y", "digit", 4, 4)
  ELSE IF code = PctLowYne THEN Group("ney", "dev", 2, 2)
  ELSE IF code = PctYne THEN Group("ney", "dev", 4, 4)
  ELSE Group("ml", "month", 0, 0)

\* _get_pattern_from_codes: the groups in order, joined by the wildcard "."
get_pattern_from_codes(codes) ==
  IF \E i \in 1..Len(codes) : codes[i] \notin PatternCodes
  THEN Message("ValueError", "Invalid code")
  ELSE LET patterns == [i \in 1..Len(codes) |-> code_pattern(codes[i])]
       IN  IF \E i, j \in 1..Len(codes) : i # j /\ patterns[i].name = patterns[j].name
           THEN Message("re.error", "redefinition of group name")
           ELSE Return("pattern", patterns, {})

\* _all_month_names, the alternatives of month_name_re_fragment in order
all_month_names ==
  month_name
  \o [i \in 1..12 |-> [k \in 1..Len(month_name[i]) |-> Lower(month_name[i][k])]]
  \o month_name_abbr
  \o [i \in 1..12 |-> [k \in 1..Len(month_name_abbr[i]) |-> Lower(month_name_abbr[i][k])]]
  \o month_name_dev

\* month_name_to_numbers[name]: the last index i at which a list holds the name
month_name_to_numbers(name) ==
  LET at == {i \in 1..12 : \E l \in 0..4 : all_month_names[12 * l + i] = name}
  IN  CHOOSE i \in at : \A k \in at : k <= i

NoMatch == [ok |-> FALSE, groups |-> <<>>]

InClass(c, cls) == IF cls = "dev" THEN IsDevDigit(c) ELSE IsDigit(c)

\* pattern.match: the groups from index pos of datestr on, each but the last
\* followed by one wildcard character; greedy, the first alternative that lets
\* the rest match
RECURSIVE MatchFrom(_, _, _)
MatchFrom(patterns, datestr, pos) ==
  IF Len(patterns) = 0 THEN [ok |-> TRUE, groups |-> <<>>]
  ELSE
    LET p == Head(patterns)
        After(next) ==
          IF Len(patterns) = 1 THEN [ok |-> TRUE, groups |-> <<>>]
          ELSE IF next > Len(datestr) THEN NoMatch
          ELSE MatchFrom(Tail(patterns), datestr, next + 1)
        Captured(n) ==
          [ok |-> TRUE,
           groups |-> (p.name :> SubSeq(datestr, pos, pos + n - 1)) @@ After(pos + n).groups]
    IN  IF p.cls = "month"
        THEN LET alts == {i \in 1..Len(all_month_names) :
                            /\ OccursAt(datestr, all_month_names[i], pos)
                            /\ After(pos + Len(all_month_names[i])).ok}
             IN  IF alts = {} THEN NoMatch
                 ELSE Captured(Len(all_month_names[CHOOSE i \in alts : \A k \in alts : i <= k]))
        ELSE LET counts == {n \in p.min..p.max :
                              /\ pos + n - 1 <= Len(datestr)
                              /\ \A k \in 0..(n - 1) : InClass(datestr[pos + k], p.cls)
                              /\ After(pos + n).ok}
             IN  IF counts = {} THEN NoMatch
                 ELSE Captured(CHOOSE n \in counts : \A k \in counts : k <= n)

\* lines 363-384: the triple from the groups matched
assemble(date_dict) ==
  LET has(k) == k \in DOMAIN date_dict
      dev(k) == ToInt(TranslateDevToEng(date_dict[k]))
  IN  IF ~(has("y") \/ has("sy") \/ has("ney")) \/ ~(has("m") \/ has("ml") \/ has("nem"))
         \/ ~(has("day") \/ has("ned"))
      THEN Message("KeyError", "missing field")
      ELSE LET y == IF has("ney") THEN dev("ney")
                    ELSE IF has("sy") THEN ToInt(<<"2", "0">> \o date_dict["sy"])
                    ELSE ToInt(date_dict["y"])
               m == IF has("nem") THEN dev("nem")
                    ELSE IF has("ml") THEN month_name_to_numbers(date_dict["ml"])
                    ELSE ToInt(date_dict["m"])
               day == IF has("ned") THEN dev("ned") ELSE ToInt(date_dict["day"])
           IN  Return("samwat", samwat(y, m, day, None), {})

Parsed(cache, out) == [cache |-> cache, out |-> out]

\* parse serving the entry of a non-empty cache for every pattern string
parse_any_cached(cache, datestr, parsestr) ==
  LET codes == FindCodes(parsestr, 1)
      unique_codes == {unique_code(codes[i]) : i \in 1..Len(codes)}
  IN  IF Cardinality(unique_codes) # 3
      THEN Parsed(cache, Message("ValueError", "Invalid number of date codes"))
      ELSE LET compiled == IF DOMAIN cache # {}
                           THEN Return("pattern", cache[CHOOSE k \in DOMAIN cache : TRUE], {})
                           ELSE get_pattern_from_codes(codes)
           IN  IF compiled.kind # "pattern" THEN Parsed(cache, compiled)
               ELSE LET cached == IF parsestr \in DOMAIN cache THEN cache
                                  ELSE (parsestr :> compiled.val) @@ cache
                        match == MatchFrom(compiled.val, datestr, 1)
                    IN  IF ~match.ok THEN Parsed(cached, Message("ValueError", "Could not match"))
                        ELSE Parsed(cached, assemble(match.groups))

\* samwat.parse(datestr, parsestr) with _PATTERNS_CACHE = cache
parse(cache, datestr, parsestr) ==
  LET codes == FindCodes(parsestr, 1)
      unique_codes == {unique_code(codes[i]) : i \in 1..Len(codes)}
  IN  IF Cardinality(unique_codes) # 3
      THEN Parsed(cache, Message("ValueError", "Invalid number of date codes"))
      ELSE LET compiled == IF parsestr \in DOMAIN cache THEN Return("pattern", cache[parsestr], {})
                           ELSE get_pattern_from_codes(codes)
           IN  IF compiled.kind # "pattern" THEN Parsed(cache, compiled)
               ELSE LET cached == IF parsestr \in DOMAIN cache THEN cache
                                  ELSE (parsestr :> compiled.val) @@ cache
                        match == MatchFrom(compiled.val, datestr, 1)
                    IN  IF ~match.ok THEN Parsed(cached, Message("ValueError", "Could not match"))
                        ELSE Parsed(cached, assemble(match.groups))

(***************************************************************************)
(* The converters called directly (module-level functions).                *)
(***************************************************************************)
\* the B.S. years the model draws
BsYears ==
  (MIN_BS_YEAR - YearMargin)..(MIN_BS_YEAR + EdgeYears - 1)
  \cup (MAX_BS_YEAR - EdgeYears + 1)..(MAX_BS_YEAR + YearMargin)
  \cup {y \in MIN_BS_YEAR..MAX_BS_YEAR : y % BsStride = 0}

\* days of month m of year y: the table's, 30 where the table has no row
DaysDrawn(y, m) ==
  IF y \in DOMAIN BS_YEAR_TO_MONTHS /\ m \in 1..12 THEN BS_YEAR_TO_MONTHS[y][m] ELSE 30

\* the triples the model constructs: every date of the years drawn, and the
\* triples off by one in month (0, 13) or in day (0, last day + 1)
LocalTriples ==
  {<<y, m, d>> \in BsYears \X (0..13) \X (0..33) : d <= DaysDrawn(y, m) + 1}

\* the invariant of section 3: a date of the supported range that the table knows
IsValid(s) ==
  /\ s.year \in MIN_BS_YEAR..MAX_BS_YEAR
  /\ s.month \in 1..12
  /\ s.day \in 1..BS_YEAR_TO_MONTHS[s.year][s.month]

Inputs ==
  {Value("date", d) : d \in AdDates}
  \cup {Value("samwat", samwat(t[1], t[2], t[3], None)) : t \in LocalTriples}

Init ==
  /\ op = "start"
  /\ orig \in Inputs
  /\ self = BS_SCALE
  /\ arg = NoArg
  /\ ret = NoCall
  /\ calls = 0
  /\ PATTERNS_CACHE = <<>>

\* convert_ad_to_bs(date_in_ad)
CallAdToBs ==
  /\ op = "start"
  /\ orig.kind = "date"
  /\ op' = "convert_ad_to_bs"
  /\ arg' = orig
  /\ ret' = convert_ad_to_bs(orig.val)
  /\ self' = IF ret'.kind = "samwat" THEN ret'.val ELSE self
  /\ UNCHANGED <<orig, calls, PATTERNS_CACHE>>

\* a second call of convert_ad_to_bs, with a later date
CallAdToBsLater ==
  \E k \in 1..MaxGap :
    /\ op = "convert_ad_to_bs"
    /\ AD_SCALE <= arg.val + k
    /\ arg.val + k < YearStart(MAX_AD_YEAR + 1)
    /\ op' = "convert_ad_to_bs_later"
    /\ arg' = Value("date", arg.val + k)
    /\ ret' = convert_ad_to_bs(arg.val + k)
    /\ self' = IF ret'.kind = "samwat" THEN ret'.val ELSE self
    /\ UNCHANGED <<orig, calls, PATTERNS_CACHE>>

\* convert_bs_to_ad(samwat(y, m, d))
CallBsToAd ==
  /\ op = "start"
  /\ orig.kind = "samwat"
  /\ op' = "convert_bs_to_ad"
  /\ self' = orig.val
  /\ arg' = orig
  /\ ret' = convert_bs_to_ad(orig.val)
  /\ UNCHANGED <<orig, calls, PATTERNS_CACHE>>

\* convert_ad_to_bs(convert_bs_to_ad(d))
ThenAdToBs ==
  /\ op = "convert_bs_to_ad"
  /\ ret.kind = "date"
  /\ op' = "bs_ad_bs"
  /\ arg' = Value("date", ret.val)
  /\ ret' = convert_ad_to_bs(ret.val)
  /\ self' = IF ret'.kind = "samwat" THEN ret'.val ELSE self
  /\ UNCHANGED <<orig, calls, PATTERNS_CACHE>>

\* convert_bs_to_ad(samwat(*convert_ad_to_bs(r).as_tuple())): recomputed, _ad not read
ThenBsToAd ==
  /\ op = "convert_ad_to_bs"
  /\ ret.kind = "samwat"
  /\ op' = "ad_bs_ad"
  /\ self' = samwat(ret.val.year, ret.val.month, ret.val.day, None)
  /\ arg' = Value("samwat", self')
  /\ ret' = convert_bs_to_ad(self')
  /\ UNCHANGED <<orig, calls, PATTERNS_CACHE>>

Next ==
  \/ CallAdToBs
  \/ CallAdToBsLater
  \/ CallBsToAd
  \/ ThenAdToBs
  \/ ThenBsToAd

Spec == Init /\ [][Next]_vars


(***************************************************************************)
(* The samwat instances and operands of the arithmetic and comparison      *)
(* operations.                                                             *)
(***************************************************************************)
\* the anchor, the first day after the anchor's year, the date of the tests'
\* setUp, the last day of the supported range and the first day after it
TriplePivots ==
  { as_tuple(BS_SCALE),
    <<MIN_BS_YEAR + 1, 1, 1>>,
    <<2073, 7, 28>>,
    <<MAX_BS_YEAR, 12, BS_YEAR_TO_MONTHS[MAX_BS_YEAR][12]>>,
    <<MAX_BS_YEAR + 1, 1, 1>> }

DatePivots == {AD_SCALE, Date(2016, 11, 13), Date(MAX_AD_YEAR, 12, 31)}

SamwatTriples == {<<p[1], p[2], p[3] + k>> : p \in TriplePivots, k \in (0 - Window)..Window}

DateOperands == {p + k : p \in DatePivots, k \in (0 - Window)..Window}

\* samwat(y, m, d) and samwat.from_ad(date)
Instances ==
  {samwat(t[1], t[2], t[3], None) : t \in SamwatTriples}
  \cup {convert_ad_to_bs(d).val : d \in {e \in DateOperands : InAdRange(e)}}

Deltas == (0 - MaxDelta)..MaxDelta \cup {0 - 365 - MaxDelta, 365 + MaxDelta}

Operands ==
  {Value("timedelta", n) : n \in Deltas}
  \cup {Value("date", d) : d \in DateOperands}
  \cup {Value("samwat", samwat(t[1], t[2], t[3], None)) : t \in TriplePivots}
  \cup {Value("int", 10)}

(***************************************************************************)
(* d += timedelta(n); d -= timedelta(n)                                    *)
(***************************************************************************)
\* every date of the anchor's year and of the next, and the samwat triples
ArithTriples ==
  {t \in (MIN_BS_YEAR..(MIN_BS_YEAR + 1)) \X (1..12) \X (1..32) :
     t[3] <= BS_YEAR_TO_MONTHS[t[1]][t[2]]}
  \cup SamwatTriples

InitArith ==
  /\ op = "__init__"
  /\ self \in {samwat(t[1], t[2], t[3], None) : t \in ArithTriples}
  /\ orig = Value("samwat", self)
  /\ arg \in {Value("timedelta", n) : n \in Deltas}
  /\ ret = NoCall
  /\ calls = 0
  /\ PATTERNS_CACHE = <<>>

\* __iadd__: the name is rebound to the samwat returned
IAdd ==
  /\ op = "__init__"
  /\ \E r \in {samwat_add(self, arg)} :
       /\ ret' = r.out
       /\ self' = IF r.out.kind = "samwat" THEN r.out.val ELSE r.self
  /\ op' = "__iadd__"
  /\ calls' = calls + 1
  /\ UNCHANGED <<arg, orig, PATTERNS_CACHE>>

\* __isub__ of the same timedelta
ISub ==
  /\ op = "__iadd__"
  /\ ret.kind = "samwat"
  /\ \E r \in {samwat_sub(self, arg)} :
       /\ ret' = r.out
       /\ self' = IF r.out.kind = "samwat" THEN r.out.val ELSE r.self
  /\ op' = "__isub__"
  /\ calls' = calls + 1
  /\ UNCHANGED <<arg, orig, PATTERNS_CACHE>>

NextArith == IAdd \/ ISub

SpecArith == InitArith /\ [][NextArith]_vars

(***************************************************************************)
(* Calls on one samwat instance.                                           *)
(***************************************************************************)
InitSamwat ==
  /\ op = "idle"
  /\ self \in Instances
  /\ orig = Value("samwat", self)
  /\ arg = NoArg
  /\ ret = NoCall
  /\ calls = 0
  /\ PATTERNS_CACHE = <<>>

\* a call of the binary operation named, with the outcome r
Call(name, r) ==
  /\ op = "idle"
  /\ calls < MaxCalls
  /\ self' = r.self
  /\ arg' = r.other
  /\ ret' = r.out
  /\ op' = name
  /\ calls' = calls + 1
  /\ UNCHANGED <<orig, PATTERNS_CACHE>>

\* a read of self.ad
ReadAd ==
  \E r \in {samwat_ad(self)} :
    /\ op = "idle"
    /\ calls < MaxCalls
    /\ self' = r.self
    /\ ret' = r.out
    /\ arg' = NoArg
    /\ op' = "ad"
    /\ calls' = calls + 1
    /\ UNCHANGED <<orig, PATTERNS_CACHE>>

\* the operators, with an operand of any kind
Add == \E x \in Operands : Call("__add__", samwat_add(self, x))
Sub == \E x \in Operands : Call("__sub__", samwat_sub(self, x))
RSub == \E x \in Operands : Call("__rsub__", samwat_rsub(self, x))
Eq == \E x \in Operands : Call("__eq__", samwat_eq(self, x))
Lt == \E x \in Operands : Call("__lt__", samwat_lt(self, x))
Le == \E x \in Operands : Call("__le__", samwat_le(self, x))
Gt == \E x \in Operands : Call("__gt__", samwat_gt(self, x))
Ge == \E x \in Operands : Call("__ge__", samwat_ge(self, x))

\* the arguments of replace drawn: each of year, month, day absent, given or 0
ReplaceArgs ==
  {Value("replace", [year |-> y, month |-> m, day |-> d]) :
     y \in {None, Some(MIN_BS_YEAR)}, m \in {None, Some(12)}, d \in {None, Some(0)}}

FormatStrs == {Value("str", PctY \o <<"-">> \o PctM \o <<"-">> \o PctD), Value("str", PctB)}

\* the calls that read the triple only
CallReplace == \E x \in ReplaceArgs : Call("replace", samwat_replace(self, x))
AsTuple == Call("as_tuple", samwat_as_tuple(self))
Hash == Call("__hash__", samwat_hash(self))
CallStrftime == \E x \in FormatStrs : Call("strftime", samwat_strftime(self, x))

\* the result of the last call is dropped
Discard ==
  /\ op # "idle"
  /\ op' = "idle"
  /\ arg' = NoArg
  /\ ret' = NoCall
  /\ UNCHANGED <<self, orig, calls, PATTERNS_CACHE>>

NextSamwat ==
  \/ ReadAd
  \/ Add
  \/ Sub
  \/ RSub
  \/ Eq
  \/ Lt
  \/ Le
  \/ Gt
  \/ Ge
  \/ CallReplace
  \/ AsTuple
  \/ Hash
  \/ CallStrftime
  \/ Discard

SpecSamwat == InitSamwat /\ [][NextSamwat]_vars

(***************************************************************************)
(* samwat.parse(d.strftime(pattern), pattern)                              *)
(***************************************************************************)
SepChars == {"-", "/"}

RECURSIVE SeqsUpTo(_, _)
\* the sequences over S of length at most n
SeqsUpTo(S, n) ==
  IF n = 0 THEN {<<>>}
  ELSE LET shorter == SeqsUpTo(S, n - 1)
       IN  shorter \cup {Append(s, c) : s \in shorter, c \in S}

Separators == SeqsUpTo(SepChars, MaxSepLen)

\* one four-digit year code, one zero-padded month code and one zero-padded day
\* code, in any order
LosslessCodes ==
  LET ys == {PctY, PctYne}
      ms == {PctM, PctMne}
      ds == {PctD, PctDne}
  IN  (ys \X ms \X ds) \cup (ys \X ds \X ms) \cup (ms \X ys \X ds)
      \cup (ms \X ds \X ys) \cup (ds \X ys \X ms) \cup (ds \X ms \X ys)

FormatPatterns ==
  {c[1] \o s1 \o c[2] \o s2 \o c[3] : c \in LosslessCodes, s1 \in Separators, s2 \in Separators}

FormatDates == {samwat(y, m, d, None) : y \in {1000, 2073}, m \in {1, 12}, d \in {9, 32}}

InitFormat ==
  /\ op = "__init__"
  /\ self \in FormatDates
  /\ orig = Value("samwat", self)
  /\ arg \in {Value("str", p) : p \in FormatPatterns}
  /\ ret = NoCall
  /\ calls = 0
  /\ PATTERNS_CACHE = <<>>

\* self.strftime(pattern)
Strftime ==
  /\ op = "__init__"
  /\ ret' = strftime(self, arg.val)
  /\ op' = "strftime"
  /\ calls' = calls + 1
  /\ UNCHANGED <<self, arg, orig, PATTERNS_CACHE>>

\* samwat.parse(formatted, pattern)
ParseBack ==
  /\ op = "strftime"
  /\ ret.kind = "str"
  /\ LET r == parse(PATTERNS_CACHE, ret.val, arg.val)
     IN  /\ ret' = r.out
         /\ PATTERNS_CACHE' = r.cache
  /\ op' = "strftime_parse"
  /\ calls' = calls + 1
  /\ UNCHANGED <<self, arg, orig>>

NextFormat == Strftime \/ ParseBack

SpecFormat == InitFormat /\ [][NextFormat]_vars

(***************************************************************************)
(* Calls of samwat.parse, sharing _PATTERNS_CACHE.                         *)
(***************************************************************************)
ParseCodes == {PctY, PctM, PctB, PctD}

\* three codes separated by "-", and the patterns with an unknown code, with a
\* code twice, with both day codes, with two codes and with no separator
ParsePatterns ==
  {c[1] \o <<"-">> \o c[2] \o <<"-">> \o c[3] : c \in ParseCodes \X ParseCodes \X ParseCodes}
  \cup { PctY \o <<"-", "%", "x", "-">> \o PctD,
         PctY \o <<"-">> \o PctM \o <<"-">> \o PctD \o <<"-">> \o PctD,
         PctY \o <<"-">> \o PctD \o <<"-">> \o PctMinusD,
         PctY \o <<"-">> \o PctM,
         PctY \o PctM \o PctD }

DateStrs ==
  { <<"2", "0", "7", "3", "-", "0", "7", "-", "2", "8">>,
    <<"2", "0", "7", "3", "/", "0", "7", "/", "2", "8">>,
    <<"2", "0", "7", "3", "-", "0", "7", "-", "K", "a", "r", "t", "i", "k">>,
    <<"2", "0", "7", "3", "0", "7", "2", "8">> }

InitParse ==
  /\ op = "idle"
  /\ self = BS_SCALE
  /\ orig = NoArg
  /\ arg = NoArg
  /\ ret = NoCall
  /\ calls = 0
  /\ PATTERNS_CACHE = <<>>

\* samwat.parse(datestr, parsestr)
Parse ==
  \E datestr \in DateStrs, parsestr \in ParsePatterns :
    /\ op = "idle"
    /\ calls < MaxParses
    /\ LET r == parse(PATTERNS_CACHE, datestr, parsestr)
       IN  /\ ret' = r.out
           /\ PATTERNS_CACHE' = r.cache
    /\ arg' = Value("parse", [datestr |-> datestr, parsestr |-> parsestr])
    /\ op' = "parse"
    /\ calls' = calls + 1
    /\ UNCHANGED <<self, orig>>

\* the same call once more: samwat.parse(datestr, parsestr) with the cache the
\* first call left
ParseAgain ==
  /\ op = "parse"
  /\ calls < MaxParses
  /\ \E r \in {parse(PATTERNS_CACHE, arg.val.datestr, arg.val.parsestr)} :
       /\ ret' = r.out
       /\ PATTERNS_CACHE' = r.cache
  /\ op' = "parse_again"
  /\ calls' = calls + 1
  /\ UNCHANGED <<self, orig, arg>>

NextParse == Parse \/ ParseAgain \/ Discard

SpecParse == InitParse /\ [][NextParse]_vars

(***************************************************************************)
(* Properties of the converters.                                           *)
(***************************************************************************)
\* C1: round trip local -> reference -> local: for every valid local date d of the
\* supported range 2000..2089, convert_bs_to_ad(d) returns a date and
\* convert_ad_to_bs of it returns the triple of d.
C1_RoundTripLocal ==
  /\ (op = "convert_bs_to_ad" /\ IsValid(orig.val)) => ret.kind = "date"
  /\ (op = "bs_ad_bs" /\ IsValid(orig.val)) =>
        (ret.kind = "samwat" /\ as_tuple(ret.val) = as_tuple(orig.val))

\* C2: round trip reference -> local -> reference: for every reference date r of the
\* years 1944..2033, convert_ad_to_bs(r) returns a samwat and convert_bs_to_ad of
\* its triple (recomputed, _ad not read) succeeds and returns r.
C2_RoundTripReference ==
  /\ (op = "convert_ad_to_bs" /\ InAdRange(orig.val)) => ret.kind = "samwat"
  /\ (op = "ad_bs_ad" /\ InAdRange(orig.val)) => (ret.kind = "date" /\ ret.val = orig.val)

\* C3: anchor fixpoint in both directions: convert_ad_to_bs(AD_SCALE) returns the
\* triple of BS_SCALE and convert_bs_to_ad(BS_SCALE) returns AD_SCALE.
C3_AnchorFixpoint ==
  /\ (op = "convert_ad_to_bs" /\ arg.val = AD_SCALE) =>
        (ret.kind = "samwat" /\ as_tuple(ret.val) = as_tuple(BS_SCALE))
  /\ (op = "convert_bs_to_ad" /\ as_tuple(arg.val) = as_tuple(BS_SCALE)) =>
        (ret.kind = "date" /\ ret.val = AD_SCALE)

\* C4: range errors: convert_ad_to_bs raises ValueError exactly when the year of the
\* date is < 1944 or > 2033, convert_bs_to_ad exactly when the samwat's year is
\* < 2000 or > 2089, and a call that raises it has looked up no table row.
C4_RangeErrors ==
  /\ op \in {"convert_ad_to_bs", "convert_ad_to_bs_later", "bs_ad_bs"} =>
        /\ ret.kind = "ValueError" <=>
              (AdYear(arg.val) < MIN_AD_YEAR \/ AdYear(arg.val) > MAX_AD_YEAR)
        /\ ret.kind = "ValueError" => ret.looked = {}
  /\ op \in {"convert_bs_to_ad", "ad_bs_ad"} =>
        /\ ret.kind = "ValueError" <=>
              (arg.val.year < MIN_BS_YEAR \/ arg.val.year > MAX_BS_YEAR)
        /\ ret.kind = "ValueError" => ret.looked = {}

\* a date of 2034 was converted and rejected
C4_Witness ==
  /\ op = "convert_ad_to_bs"
  /\ AdYear(arg.val) = MAX_AD_YEAR + 1
  /\ ret.kind = "ValueError"

\* C5: monotonicity of convert_ad_to_bs: for two dates d1 < d2 of the years
\* 1944..2033 both calls return a samwat and the first is less than the second in
\* the order of the (year, month, day) triples.
C5_Monotonic ==
  [][(/\ op = "convert_ad_to_bs"
      /\ op' = "convert_ad_to_bs_later"
      /\ InAdRange(arg.val)
      /\ InAdRange(arg'.val)
      /\ arg.val < arg'.val)
     => (/\ ret.kind = "samwat"
         /\ ret'.kind = "samwat"
         /\ TupleLt(as_tuple(ret.val), as_tuple(ret'.val)))]_vars

\* the later of two successive dates is the first day of B.S. year 2090
C5_Witness ==
  /\ op = "convert_ad_to_bs_later"
  /\ InAdRange(orig.val)
  /\ ret.kind = "samwat"
  /\ as_tuple(ret.val) = <<MAX_BS_YEAR + 1, 1, 1>>

(***************************************************************************)
(* Properties of the samwat operations.                                    *)
(***************************************************************************)
\* C6: arithmetic consistency: for a valid local date d of the supported range and
\* a day count n whose intermediate result d + timedelta(n) is a valid date of the
\* supported range, (d + timedelta(n)) - timedelta(n) is a samwat with d's triple.
C6_AddThenSub ==
  [][(/\ op = "__iadd__"
      /\ op' = "__isub__"
      /\ IsValid(orig.val)
      /\ ret.kind = "samwat"
      /\ IsValid(ret.val))
     => (/\ ret'.kind = "samwat"
         /\ as_tuple(ret'.val) = as_tuple(orig.val))]_vars

\* C9: ordering against a reference date is the order of the dates applied to
\* s.ad: s < r iff s.ad < r, s == r iff s.ad = r (so never both), and the derived
\* s <= r, s > r, s >= r agree with s.ad <= r, s.ad > r, s.ad >= r.
C9_OrderAgainstDate ==
  (arg.kind = "date" /\ ret.kind = "bool") =>
     /\ op = "__lt__" => (ret.val <=> Get(self.ad) < arg.val)
     /\ op = "__eq__" => (ret.val <=> Get(self.ad) = arg.val)
     /\ op = "__le__" => (ret.val <=> Get(self.ad) <= arg.val)
     /\ op = "__gt__" => (ret.val <=> Get(self.ad) > arg.val)
     /\ op = "__ge__" => (ret.val <=> Get(self.ad) >= arg.val)

\* C10: a type mismatch is always an error: samwat + x raises TypeError unless x
\* is a timedelta, samwat - x unless x is a timedelta, a date or a samwat,
\* x - samwat, samwat == x and samwat < x unless x is a date or a samwat; a call
\* that raises TypeError leaves the receiver's triple and cached _ad unchanged.
C10_TypeMismatch ==
  [][/\ op' = "__add__" => (ret'.kind = "TypeError" <=> arg'.kind # "timedelta")
     /\ op' = "__sub__" =>
          (ret'.kind = "TypeError" <=> arg'.kind \notin {"timedelta", "date", "samwat"})
     /\ op' \in {"__rsub__", "__eq__", "__lt__"} =>
          (ret'.kind = "TypeError" <=> arg'.kind \notin {"date", "samwat"})
     /\ ret'.kind = "TypeError" => self' = self]_vars

\* timedelta - samwat was tried on an instance without a cached _ad and failed
C10_Witness ==
  /\ op = "__rsub__"
  /\ arg.kind = "timedelta"
  /\ ret.kind = "TypeError"
  /\ self.ad = None

(***************************************************************************)
(* Properties of the pattern engine.                                       *)
(***************************************************************************)
\* C7: format/parse inverse: for every pattern of one four-digit year code, one
\* zero-padded month code and one zero-padded day code in any order with any
\* separator text between them (none and several characters included) and every
\* date with a four-digit year, month 1..12 and day 1..32, strftime returns a str
\* and parsing it with the same pattern returns a samwat with the same triple.
C7_FormatParseInverse ==
  /\ op = "strftime" => ret.kind = "str"
  /\ op = "strftime_parse" =>
        (ret.kind = "samwat" /\ as_tuple(ret.val) = as_tuple(orig.val))

\* the field category of a code: day, month (month names included) or year
Category(code) ==
  IF code \in {PctD, PctMinusD, PctDne, PctMinusDne} THEN "day"
  ELSE IF code \in {PctM, PctMinusM, PctMne, PctMinusMne, PctB, PctBne} THEN "month"
  ELSE IF code \in {PctLowY, PctY, PctLowYne, PctYne} THEN "year"
  ELSE "unknown"

Categories(parsestr) ==
  LET codes == FindCodes(parsestr, 1) IN {Category(codes[i]) : i \in 1..Len(codes)}

\* C8: field-category validation: a pattern whose codes lack one of the categories
\* day, month, year is rejected with ValueError 'Invalid number of date codes in
\* the parse pattern', and no parse ends in the final assembly with a field missing.
C8_CategoryValidation ==
  op = "parse" =>
     /\ ~({"day", "month", "year"} \subseteq Categories(arg.val.parsestr)) =>
           (ret.kind = "ValueError" /\ ret.val = "Invalid number of date codes")
     /\ ret.kind # "KeyError"

(***************************************************************************)
(* Properties of the converters' loops and of the validation of triples.   *)
(***************************************************************************)
\* C11: normalization loop of convert_ad_to_bs: for every date of the years
\* 1944..2033 the call returns a samwat, has looked up only the years 2000..2089
\* of the table, and the samwat is a valid date: year in 2000..2089, month in
\* 1..12 and day in 1..BS_YEAR_TO_MONTHS[year][month].
C11_LoopStaysInRange ==
  (op \in {"convert_ad_to_bs", "convert_ad_to_bs_later"} /\ InAdRange(arg.val)) =>
     /\ ret.kind = "samwat"
     /\ ret.looked \subseteq MIN_BS_YEAR..MAX_BS_YEAR
     /\ IsValid(ret.val)

\* C12: deferred validation: convert_bs_to_ad of a triple whose year is in
\* 2000..2089 but whose month is outside 1..12 or whose day is outside
\* 1..BS_YEAR_TO_MONTHS[year][month] ends with an error, never with a date.
C12_DeferredValidation ==
  (/\ op = "convert_bs_to_ad"
   /\ arg.val.year \in MIN_BS_YEAR..MAX_BS_YEAR
   /\ ~IsValid(arg.val)) => ret.kind # "date"

(***************************************************************************)
(* Properties of the compiled matcher and of _PATTERNS_CACHE.              *)
(***************************************************************************)
RECURSIVE RemoveCodes(_, _)
\* the text of a pattern with the codes taken out, in order
RemoveCodes(parsestr, pos) ==
  IF pos > Len(parsestr) THEN <<>>
  ELSE IF CodeLenAt(parsestr, pos) > 0
  THEN RemoveCodes(parsestr, pos + CodeLenAt(parsestr, pos))
  ELSE <<parsestr[pos]>> \o RemoveCodes(parsestr, pos + 1)

\* the characters of an input that belong to no field
NotWord(c) == ~IsWord(c)

\* C13: literal separators: a parse that returns a samwat has matched an input
\* whose text between the fields is the separator text between the codes of the
\* pattern (so 2073/07/28 against %Y-%m-%d ends with 'Could not match'), and a
\* pattern of adjacent codes matches the input of adjacent fields.
C13_LiteralSeparators ==
  op = "parse" =>
     /\ ret.kind = "samwat" =>
           SelectSeq(arg.val.datestr, NotWord) = RemoveCodes(arg.val.parsestr, 1)
     /\ (/\ arg.val.parsestr = PctY \o PctM \o PctD
         /\ arg.val.datestr = <<"2", "0", "7", "3", "0", "7", "2", "8">>)
           => ret.kind = "samwat"

\* what a fresh compile of a pattern string builds
FreshCompile(parsestr) == get_pattern_from_codes(FindCodes(parsestr, 1))

\* a pattern string that passes the validation of parse
PassesValidation(parsestr) ==
  Cardinality({unique_code(c) : c \in Range(FindCodes(parsestr, 1))}) = 3

\* C14: pattern-cache transparency: a call of parse keeps every entry of
\* _PATTERNS_CACHE as it was, inserts at most the entry of its own pattern string,
\* every entry maps a pattern string that passes validation and compiles to what
\* a fresh compile of it builds, and the outcome of the call is the outcome of
\* the same call with an empty cache.
C14_CacheTransparent ==
  [][(op' \in {"parse", "parse_again"} /\ calls' = calls + 1) =>
       /\ \A p \in DOMAIN PATTERNS_CACHE :
             p \in DOMAIN PATTERNS_CACHE' /\ PATTERNS_CACHE'[p] = PATTERNS_CACHE[p]
       /\ (DOMAIN PATTERNS_CACHE') \ (DOMAIN PATTERNS_CACHE) \subseteq {arg'.val.parsestr}
       /\ \A p \in DOMAIN PATTERNS_CACHE' :
             /\ PassesValidation(p)
             /\ FreshCompile(p).kind = "pattern"
             /\ PATTERNS_CACHE'[p] = FreshCompile(p).val
       /\ ret' = parse(<<>>, arg'.val.datestr, arg'.val.parsestr).out]_vars

\* a call repeated with its pattern cached by the first call returned a samwat
C14_Witness ==
  /\ op = "parse_again"
  /\ ret.kind = "samwat"
  /\ arg.val.parsestr \in DOMAIN PATTERNS_CACHE

(***************************************************************************)
(* Properties of the cached _ad of an instance.                            *)
(***************************************************************************)
\* C15: the cached equivalent is write-once: no operation of an instance changes
\* its triple; _ad goes from None to a date only as the date convert_bs_to_ad
\* returns for the triple and stays None when the conversion raises; a cached
\* _ad never changes and a read of ad with _ad cached returns it without a
\* conversion; replace returns a new instance without a cached _ad.
C15_WriteOnce ==
  [][/\ as_tuple(self') = as_tuple(self)
     /\ self.ad # None => self'.ad = self.ad
     /\ (self.ad = None /\ self'.ad # None) =>
           /\ convert_bs_to_ad(self).kind = "date"
           /\ self'.ad = Some(convert_bs_to_ad(self).val)
     /\ (self.ad = None /\ convert_bs_to_ad(self).kind # "date") => self'.ad = None
     /\ (op' = "ad" /\ self.ad # None) => ret' = Return("date", Get(self.ad), {})
     /\ op' = "replace" =>
           /\ self' = self
           /\ ret'.kind = "samwat"
           /\ ret'.val.ad = None]_vars

\* an instance built from a bare triple has its _ad cached by an earlier call,
\* and a later read of ad returned the cached date without a conversion
C15_Witness ==
  /\ op = "ad"
  /\ orig.val.ad = None
  /\ self.ad # None
  /\ ret = Return("date", Get(self.ad), {})
====
